---- MODULE Spec2Model ----
(***************************************************************************)
(* Model of ndimage's generic 2D image type (src/src/core/image2d.rs).     *)
(*                                                                         *)
(* An image (Image2DRepr) is a wrapper around one ndarray ArrayBase<D,Ix2>.*)
(* The array is modelled as ndarray lays it out: a shape (rows, cols), an  *)
(* offset into the backing storage, one stride per axis, and the storage   *)
(* itself.  An owned buffer has offset 0 and row-major strides; a view     *)
(* obtained by slicing keeps the strides of its parent and moves the       *)
(* offset.  Fallible operations return a record whose field st is one of   *)
(* "ok" (Result::Ok / a value), "err" (Result::Err), "panic", "none" and   *)
(* "some" (Option).                                                        *)
(***************************************************************************)
EXTENDS Integers, Sequences, FiniteSets, TLC

VARIABLES img, src, ctor, op, args, pre, res, it, calls

vars == <<img, src, ctor, op, args, pre, res, it, calls>>

(* ------------------------------ bounds -------------------------------- *)

\* Largest image width and height explored.
MaxW == 2
MaxH == 2
\* Largest channel count of a pixel type explored (Luma = 1, LumaA = 2, ...).
MaxChannels == 2
\* Largest translation offset explored by translate_rect, in either sign.
MaxOff == 3
\* Largest number of calls made to an iterator after it has ended.
MaxExtra == 2

\* Pixel values written by the mutating operations.
Pix == {0, 77}

\* The two ways the crate can be compiled: integer overflow panics in a
\* debug build and wraps in a release build.
Builds == {"debug", "release"}

(* ------------------------------ results ------------------------------- *)

Ok(v) == [st |-> "ok", val |-> v]
Err == [st |-> "err"]
Panic == [st |-> "panic"]
None == [st |-> "none"]
Some(v) == [st |-> "some", val |-> v]

Min(a, b) == IF a <= b THEN a ELSE b
Max(a, b) == IF a >= b THEN a ELSE b

\* <<1, 2, ..., n>>
Iota(n) == [k \in 1..n |-> k]

(* ------------------------------ ndarray ------------------------------- *)

\* Strides ndarray gives a freshly allocated array of shape (rows, cols).
DefaultStrides(rows, cols) ==
    IF rows = 0 \/ cols = 0 THEN <<0, 0>> ELSE <<cols, 1>>

\* An owned array of shape (rows, cols) over the storage v.
OwnedArray(rows, cols, v) ==
    [rows |-> rows, cols |-> cols, off |-> 0,
     rs |-> DefaultStrides(rows, cols)[1], cs |-> DefaultStrides(rows, cols)[2],
     data |-> v]

\* Array2::from_shape_vec((rows, cols), v): a ShapeError unless the shape
\* holds exactly Len(v) elements.
FromShapeVec(rows, cols, v) ==
    IF rows * cols /= Len(v) THEN Err ELSE Ok(OwnedArray(rows, cols, v))

\* Position in the storage (1-based) of the element at [row, col].
ElemPos(a, row, col) == a.off + row * a.rs + col * a.cs + 1

\* Position in the storage of the k-th element (k >= 1) in logical
\* row-major order, the order of ndarray's element iterators.
IterPos(a, k) == ElemPos(a, (k - 1) \div a.cols, (k - 1) % a.cols)

\* Number of elements of the array.
ALen(a) == a.rows * a.cols

\* The elements in logical row-major order (ArrayBase::iter).
AElems(a) == [k \in 1..ALen(a) |-> a.data[IterPos(a, k)]]

\* a[[row, col]]: bounds-checked on each axis.
AIndex(a, row, col) ==
    IF row < a.rows /\ col < a.cols THEN Ok(a.data[ElemPos(a, row, col)]) ELSE Panic

\* a[[row, col]] = p
AIndexSet(a, row, col, p) ==
    IF row < a.rows /\ col < a.cols
    THEN Ok([a EXCEPT !.data[ElemPos(a, row, col)] = p])
    ELSE Panic

\* a.slice(s![r0..r1, c0..c1]) with non-negative bounds: an end before its
\* start is moved to the start; a start or end past the axis length panics.
ASlice(a, r0, r1, c0, c1) ==
    LET re == Max(r0, r1)
        ce == Max(c0, c1)
    IN  IF r0 > a.rows \/ re > a.rows \/ c0 > a.cols \/ ce > a.cols
        THEN Panic
        ELSE Ok([rows |-> re - r0, cols |-> ce - c0,
                 off |-> a.off + r0 * a.rs + c0 * a.cs,
                 rs |-> a.rs, cs |-> a.cs, data |-> a.data])

\* Storage after the k-th element of the view receives vals[k], for every
\* k up to Len(vals) (a mutable element iterator driven to that length).
WriteElems(view, vals) ==
    LET n == Min(Len(vals), ALen(view))
        hit(i) == {k \in 1..n : IterPos(view, k) = i}
    IN  [i \in 1..Len(view.data) |->
            IF hit(i) /= {} THEN vals[CHOOSE k \in hit(i) : TRUE] ELSE view.data[i]]

(* ------------------------------- Rect --------------------------------- *)

Rect(l, t, w, h) == [left |-> l, top |-> t, width |-> w, height |-> h]

RectSize(r) == <<r.width, r.height>>

\* right = left + width - 1 and bottom = top + height - 1, for rects that
\* are not empty.
RectRight(r) == r.left + r.width - 1
RectBottom(r) == r.top + r.height - 1

\* The largest 32-bit unsigned value, 2^32 - 1, written as its residue.
U32Max == -1

\* What is open about the code that runs: the build, and what Rect answers
\* for right() when left + width = 0 (for bottom() when top + height = 0),
\* where left + width - 1 has no unsigned value: it panics, or it wraps.
Envs == [build : Builds, edge : {"panic", "wrap"}]

\* right() of a rect from sum = left + width, bottom() from top + height.
RectEdge(sum, env) ==
    IF sum >= 1 THEN Ok(sum - 1)
    ELSE IF env.edge = "panic" THEN Panic ELSE Ok(U32Max)

\* Region::contains
RectContains(r, x, y) ==
    /\ r.left <= x /\ x < r.left + r.width
    /\ r.top <= y /\ y < r.top + r.height

(* ------------------------------ Image2D ------------------------------- *)

Width(im) == im.cols
\* height() reading the column count.
HeightFromCols(im) == im.cols
Height(im) == im.rows
Dimensions(im) == <<Width(im), Height(im)>>

\* Rect::fits_image
RectFitsImage(r, im) ==
    /\ r.left + r.width <= Width(im)
    /\ r.top + r.height <= Height(im)

\* get_pixel checked against the extent of the storage only.
GetPixelUnchecked(im, x, y) ==
    IF ElemPos(im, y, x) <= Len(im.data) THEN Ok(im.data[ElemPos(im, y, x)]) ELSE Panic

\* Image2D::get_pixel, and Index<(u32, u32)>
GetPixel(im, x, y) == AIndex(im, y, x)

\* All cells in scanline order (Image2D::iter / IntoIterator).
Iter(im) == AElems(im)

\* The pixel value that is not equal to itself (a float pixel holding NaN).
NaN == -1

\* Equality of two pixels (the PartialEq every Pixel type provides).
PixEq(p, q) == p /= NaN /\ q /= NaN /\ p = q

\* Iterator::eq: the same length and equal elements at each position.
IterEq(s, t) == Len(s) = Len(t) /\ \A k \in 1..Len(s) : PixEq(s[k], t[k])

\* Equality comparing the scanline sequences only.
ImageEqScanline(a, b) == IterEq(Iter(a), Iter(b))

\* PartialEq for Image2DRepr
ImageEq(a, b) == Dimensions(a) = Dimensions(b) /\ IterEq(Iter(a), Iter(b))

\* from_vec with the shape handed over as (width, height).
FromVecTransposed(w, h, v) == FromShapeVec(w, h, v)

\* ImageBuffer2D::from_vec
FromVec(w, h, v) == FromShapeVec(h, w, v)

\* Pixel::from_slice for a pixel of n channels: panics on a short slice.
\* A pixel is modelled by the sequence of its channels.
FromSlice(n, s) == IF Len(s) < n THEN Panic ELSE Ok(SubSeq(s, 1, n))

\* v.chunks(n): consecutive chunks of n values, the last one possibly shorter.
Chunks(n, v) ==
    [k \in 1..((Len(v) + n - 1) \div n) |->
        SubSeq(v, (k - 1) * n + 1, Min(k * n, Len(v)))]

\* ImageBuffer2D::from_raw_vec for a pixel type of n channels.
FromRawVec(n, w, h, v) ==
    LET pixels_iter == Chunks(n, v)
        built == [k \in 1..Len(pixels_iter) |-> FromSlice(n, pixels_iter[k])]
    IN  IF Len(pixels_iter) /= w * h THEN Err
        ELSE IF \E k \in 1..Len(built) : built[k].st = "panic" THEN Panic
        ELSE FromShapeVec(h, w, [k \in 1..Len(built) |-> built[k].val])

\* ImageBuffer2D::new: all cells zero.
New(w, h) == OwnedArray(h, w, [k \in 1..(w * h) |-> 0])

\* The arguments from_shape_fn hands the closure of generate, one call per
\* index (y, x) of the (h, w) array in row-major order, passed on as (x, y).
GenerateCalls(w, h) == [k \in 1..(w * h) |-> <<(k - 1) % w, (k - 1) \div w>>]

\* generate laying the values out column by column.
GenerateColumnMajor(w, h, f) ==
    OwnedArray(h, w, [k \in 1..(w * h) |-> f[<<(k - 1) \div h, (k - 1) % h>>]])

\* ImageBuffer2D::generate: cell (x, y) holds f[<<x, y>>], f the closure.
Generate(w, h, f) ==
    OwnedArray(h, w, [k \in 1..(w * h) |-> f[<<(k - 1) % w, (k - 1) \div w>>]])

\* The ndarray the crate is built against is not pinned down.  Releases
\* differ on arrays without elements: the older rule compares their strides
\* like any other array's, the newer one calls every such array standard.
NdarrayRules == {"by_strides", "empty_is_standard"}

\* ArrayBase::is_standard_layout: the strides are the default ones, an axis
\* of length 1 excepted.
IsStandardLayout(a, nd) ==
    LET defaults == DefaultStrides(a.rows, a.cols)
    IN  \/ nd = "empty_is_standard" /\ ALen(a) = 0
        \/ <<a.rs, a.cs>> = defaults
        \/ /\ a.rows = 1 \/ a.rs = defaults[1]
           /\ a.cols = 1 \/ a.cs = defaults[2]

\* as_slice handing out the cells whatever the layout.
AsSliceAnyLayout(im, nd) == Some(AElems(im))

\* Image2D::as_slice: the ALen(im) storage cells from the first element on,
\* when the array is in standard layout.
AsSlice(im, nd) ==
    IF IsStandardLayout(im, nd)
    THEN Some([k \in 1..ALen(im) |-> im.data[im.off + k]])
    ELSE None

\* enumerate_pixels pairing each pixel with (column, row).
EnumeratePixelsXY(im) ==
    [k \in 1..ALen(im) |->
        <<<<(k - 1) % im.cols, (k - 1) \div im.cols>>, im.data[IterPos(im, k)]>>]

\* Image2D::enumerate_pixels: ndarray's indexed_iter, each element with its
\* index (row, column), in logical row-major order.
EnumeratePixels(im) ==
    [k \in 1..ALen(im) |->
        <<<<(k - 1) \div im.cols, (k - 1) % im.cols>>, im.data[IterPos(im, k)]>>]

\* buffer.slice(s![y, ..]) and buffer.slice(s![.., x]): the one-dimensional
\* views of row y and of column x, for y and x inside the image.
RowView(im, y) ==
    [rows |-> 1, cols |-> im.cols, off |-> im.off + y * im.rs,
     rs |-> im.rs, cs |-> im.cs, data |-> im.data]
ColView(im, x) ==
    [rows |-> im.rows, cols |-> 1, off |-> im.off + x * im.cs,
     rs |-> im.rs, cs |-> im.cs, data |-> im.data]

\* row(y) yielding its pixels right to left.
RowReversed(im, y) ==
    IF y < Height(im)
    THEN Some([k \in 1..im.cols |-> AElems(RowView(im, y))[im.cols + 1 - k]])
    ELSE None

\* Image2D::row: the pixels the iterator yields, in order.
Row(im, y) == IF y < Height(im) THEN Some(AElems(RowView(im, y))) ELSE None

\* Image2D::col: the pixels the iterator yields, in order.
Col(im, x) == IF x < Width(im) THEN Some(AElems(ColView(im, x))) ELSE None

\* rows() yielding the rows from the bottom up.
RowsBottomUp(im) == [k \in 1..im.rows |-> AElems(RowView(im, im.rows - k))]

\* Image2D::rows: axis_iter(Axis(0)), the rows from the top, each the
\* sequence of its pixels from the left.
Rows(im) == [k \in 1..im.rows |-> AElems(RowView(im, k - 1))]

\* Image2D::cols: axis_iter(Axis(1)), the columns from the left, each the
\* sequence of its pixels from the top.
Cols(im) == [k \in 1..im.cols |-> AElems(ColView(im, k - 1))]

\* Image2D::to_owned: a deep copy in scanline order.
ToOwned(im) == OwnedArray(im.rows, im.cols, AElems(im))

\* rect_iter clipping the rect to the image instead of slicing it as given.
RectIterClipped(im, rect) ==
    Ok(AElems(ASlice(im, Min(rect.top, im.rows), Min(rect.top + rect.height, im.rows),
                     Min(rect.left, im.cols), Min(rect.left + rect.width, im.cols)).val))

\* Image2D::rect_iter: the cells of rect in scanline order; panics when the
\* slice bounds leave the image.
RectIter(im, rect) ==
    LET s == ASlice(im, rect.top, rect.top + rect.height,
                    rect.left, rect.left + rect.width)
    IN  IF s.st = "panic" THEN Panic ELSE Ok(AElems(s.val))

\* `rect.right() + 1` and `rect.bottom() + 1`, additions of 32-bit unsigned
\* values: on 2^32 - 1 a debug build panics and a release build wraps to 0.
EdgePlusOne(edge, env) ==
    IF edge = U32Max
    THEN IF env.build = "debug" THEN Panic ELSE Ok(0)
    ELSE Ok(edge + 1)

\* Image2D::sub_image / Image2DMut::sub_image_mut: the view over
\* rows top..bottom()+1 and columns left..right()+1.
SubImage(im, rect, env) ==
    LET right == RectEdge(rect.left + rect.width, env)
        bottom == RectEdge(rect.top + rect.height, env)
    IN  IF right.st = "panic" \/ bottom.st = "panic" THEN Panic
        ELSE LET row_end == EdgePlusOne(bottom.val, env)
                 col_end == EdgePlusOne(right.val, env)
             IN  IF row_end.st = "panic" \/ col_end.st = "panic" THEN Panic
                 ELSE ASlice(im, rect.top, row_end.val, rect.left, col_end.val)

\* Image2D::translate_rect, for rects whose right() and bottom() exist.
TranslateRect(im, rect, x, y) ==
    LET left == rect.left + x
        top == rect.top + y
        right == RectRight(rect) + x
        bottom == RectBottom(rect) + y
        w_signed == Width(im)
        h_signed == Height(im)
        x_left == IF left < 0 THEN 0 ELSE left
        y_top == IF top < 0 THEN 0 ELSE top
    IN  IF left < w_signed /\ top < h_signed /\ right >= 0 /\ bottom >= 0
        THEN Some(Rect(x_left, y_top,
                       Min(w_signed, right + 1) - x_left,
                       Min(h_signed, bottom + 1) - y_top))
        ELSE None

(* ----------------------------- iterators ------------------------------ *)
(* RowIter, ColIter, RowsIter and ColsIter wrap a double-ended, exactly    *)
(* sized ndarray iterator over one axis: a front index and an end that     *)
(* move towards each other.  The items are references, modelled by the     *)
(* index of the element along the axis (at) and what it holds (val).       *)

Refs(vals) == [k \in 1..Len(vals) |-> [at |-> k - 1, val |-> vals[k]]]

\* The iterator as row(), col(), rows() or cols() returns it.
Iterator(vals) == [items |-> Refs(vals), index |-> 0, end |-> Len(vals)]

\* ExactSizeIterator::len
IteratorLen(i) == i.end - i.index

\* Iterator::next: the item it returns and the iterator it leaves.
IteratorNext(i) ==
    IF i.index >= i.end THEN [ret |-> None, it |-> i]
    ELSE [ret |-> Some(i.items[i.index + 1]), it |-> [i EXCEPT !.index = @ + 1]]

\* next_back taking from the back without regard to the front.
NextBackPastFront(i) ==
    IF i.end <= 0 THEN [ret |-> None, it |-> i]
    ELSE [ret |-> Some(i.items[i.end]), it |-> [i EXCEPT !.end = @ - 1]]

\* DoubleEndedIterator::next_back
IteratorNextBack(i) ==
    IF i.index >= i.end THEN [ret |-> None, it |-> i]
    ELSE [ret |-> Some(i.items[i.end]), it |-> [i EXCEPT !.end = @ - 1]]

(* ----------------------------- Image2DMut ----------------------------- *)

\* A mutating call returns its status and the image it leaves behind.
Done(im) == [st |-> "ok", img |-> im]
Failed(im) == [st |-> "err", img |-> im]
Panicked(im) == [st |-> "panic", img |-> im]
Absent(im) == [st |-> "none", img |-> im]

\* put_pixel taking x for the row and y for the column.
PutPixelXY(im, x, y, p) ==
    LET r == AIndexSet(im, x, y, p)
    IN  IF r.st = "panic" THEN Panicked(im) ELSE Done(r.val)

\* Image2DMut::put_pixel, and a write through get_pixel_mut or IndexMut.
PutPixel(im, x, y, p) ==
    LET r == AIndexSet(im, y, x, p)
    IN  IF r.st = "panic" THEN Panicked(im) ELSE Done(r.val)

\* Image2DMut::fill
Fill(im, value) ==
    Done([im EXCEPT !.data = WriteElems(im, [k \in 1..ALen(im) |-> value])])

\* fill_rect clipping the rect to the image instead of slicing it as given.
FillRectClipped(im, rect, value) ==
    LET s == ASlice(im, Min(rect.top, im.rows), Min(rect.top + rect.height, im.rows),
                    Min(rect.left, im.cols), Min(rect.left + rect.width, im.cols))
    IN  Done([im EXCEPT !.data =
                 WriteElems(s.val, [k \in 1..ALen(s.val) |-> value])])

\* Image2DMut::fill_rect: every cell yielded by rect_iter_mut receives value.
FillRect(im, rect, value) ==
    LET s == ASlice(im, rect.top, rect.top + rect.height,
                    rect.left, rect.left + rect.width)
    IN  IF s.st = "panic" THEN Panicked(im)
        ELSE Done([im EXCEPT !.data =
                      WriteElems(s.val, [k \in 1..ALen(s.val) |-> value])])

\* blit_rect without the test that dst_rect fits self.
BlitRectNoDstCheck(self, src_rect, dst_rect, image) ==
    IF RectSize(src_rect) /= RectSize(dst_rect) THEN Failed(self)
    ELSE IF ~RectFitsImage(src_rect, image) THEN Failed(self)
    ELSE LET s == RectIter(image, src_rect)
             d == ASlice(self, dst_rect.top, dst_rect.top + dst_rect.height,
                         dst_rect.left, dst_rect.left + dst_rect.width)
         IN  IF s.st = "panic" \/ d.st = "panic" THEN Panicked(self)
             ELSE Done([self EXCEPT !.data = WriteElems(d.val, s.val)])

\* blit_rect reading the source at dst_rect.
BlitRectSameOrigin(self, src_rect, dst_rect, image) ==
    IF RectSize(src_rect) /= RectSize(dst_rect) THEN Failed(self)
    ELSE IF ~RectFitsImage(src_rect, image) THEN Failed(self)
    ELSE IF ~RectFitsImage(dst_rect, self) THEN Failed(self)
    ELSE LET s == RectIter(image, dst_rect)
             d == ASlice(self, dst_rect.top, dst_rect.top + dst_rect.height,
                         dst_rect.left, dst_rect.left + dst_rect.width)
         IN  IF s.st = "panic" \/ d.st = "panic" THEN Panicked(self)
             ELSE Done([self EXCEPT !.data = WriteElems(d.val, s.val)])

\* Image2DMut::blit_rect: three checks, then the cells of src_rect in image
\* are zipped with the cells of dst_rect in self.
BlitRect(self, src_rect, dst_rect, image) ==
    IF RectSize(src_rect) /= RectSize(dst_rect) THEN Failed(self)
    ELSE IF ~RectFitsImage(src_rect, image) THEN Failed(self)
    ELSE IF ~RectFitsImage(dst_rect, self) THEN Failed(self)
    ELSE LET s == RectIter(image, src_rect)
             d == ASlice(self, dst_rect.top, dst_rect.top + dst_rect.height,
                         dst_rect.left, dst_rect.left + dst_rect.width)
         IN  IF s.st = "panic" \/ d.st = "panic" THEN Panicked(self)
             ELSE Done([self EXCEPT !.data = WriteElems(d.val, s.val)])

\* Image2DMut::row_mut(y), the first n pixels it yields set to value.
RowMutWrite(im, y, n, value) ==
    IF y < Height(im)
    THEN LET row == [rows |-> 1, cols |-> im.cols, off |-> im.off + y * im.rs,
                     rs |-> im.rs, cs |-> im.cs, data |-> im.data]
         IN  Done([im EXCEPT !.data = WriteElems(row, [k \in 1..n |-> value])])
    ELSE Absent(im)

\* Image2DMut::col_mut(x), the first n pixels it yields set to value.
ColMutWrite(im, x, n, value) ==
    IF x < Width(im)
    THEN LET col == [rows |-> im.rows, cols |-> 1, off |-> im.off + x * im.cs,
                     rs |-> im.rs, cs |-> im.cs, data |-> im.data]
         IN  Done([im EXCEPT !.data = WriteElems(col, [k \in 1..n |-> value])])
    ELSE Absent(im)

\* Image2DMut::rows_mut: pixel x of the y-th row it yields set to value;
\* nothing is written when the iterators end before reaching it.
RowsMutWrite(im, x, y, value) ==
    IF y < im.rows /\ x < im.cols
    THEN Done([im EXCEPT !.data = AIndexSet(RowView(im, y), 0, x, value).val.data])
    ELSE Absent(im)

\* Image2DMut::cols_mut: pixel y of the x-th column it yields set to value.
ColsMutWrite(im, x, y, value) ==
    IF x < im.cols /\ y < im.rows
    THEN Done([im EXCEPT !.data = AIndexSet(ColView(im, x), y, 0, value).val.data])
    ELSE Absent(im)

\* Image2DMut::iter_mut, the first n pixels it yields set to value.
IterMutWrite(im, n, value) ==
    Done([im EXCEPT !.data = WriteElems(im, [k \in 1..n |-> value])])

\* Image2DMut::enumerate_pixels_mut: ndarray's indexed_iter_mut, which
\* yields ((row, column), pixel) in logical row-major order; the first n
\* pixels it yields set to value.
EnumeratePixelsMutWrite(im, n, value) ==
    LET yielded == [k \in 1..Min(n, ALen(im)) |-> EnumeratePixels(im)[k][1]]
        hit(i) == \E k \in 1..Len(yielded) :
                      ElemPos(im, yielded[k][1], yielded[k][2]) = i
    IN  Done([im EXCEPT !.data =
                 [i \in 1..Len(im.data) |-> IF hit(i) THEN value ELSE im.data[i]]])

\* sub_image_mut handing out a copy: the write never reaches the parent.
SubImageMutWriteLost(im, rect, lx, ly, value, env) ==
    LET v == SubImage(im, rect, env)
    IN  IF v.st = "panic" THEN Panicked(im)
        ELSE LET w == PutPixel(v.val, lx, ly, value)
             IN  IF w.st = "panic" THEN Panicked(im) ELSE Done(im)

\* Image2DMut::sub_image_mut(rect), then put_pixel(lx, ly, value) on the
\* view, then the view is released: the parent owns the storage the view
\* wrote to.
SubImageMutWrite(im, rect, lx, ly, value, env) ==
    LET v == SubImage(im, rect, env)
    IN  IF v.st = "panic" THEN Panicked(im)
        ELSE LET w == PutPixel(v.val, lx, ly, value)
             IN  IF w.st = "panic" THEN Panicked(im)
                 ELSE Done([im EXCEPT !.data = w.img.data])

(* ------------------------- image arithmetic --------------------------- *)

\* Number of values of the 8-bit subpixel of the pixel type the crate's
\* tests run the operators on (Luma<u8>).
U8Mod == 256

Ops == {"add", "sub", "mul", "div", "rem"}

\* The operator on two 8-bit pixel values: a division or remainder by zero
\* panics; a result out of range panics in a debug build and wraps in a
\* release build.
PixOp(o, a, b, build) ==
    IF o \in {"div", "rem"}
    THEN IF b = 0 THEN Panic
         ELSE Ok(IF o = "div" THEN a \div b ELSE a % b)
    ELSE LET exact == CASE o = "add" -> a + b
                        [] o = "sub" -> a - b
                        [] OTHER -> a * b
         IN  IF exact < 0 \/ exact >= U8Mod
             THEN IF build = "debug" THEN Panic ELSE Ok(exact % U8Mod)
             ELSE Ok(exact)

\* The operator run over the two storages in storage order, as if both
\* operands were contiguous.
ArrayOpFlat(o, lhs, rhs, build) ==
    LET cell(k) == PixOp(o, lhs.data[k], rhs.data[k], build)
    IN  IF \E k \in 1..ALen(lhs) : cell(k).st = "panic" THEN Panic
        ELSE Ok(OwnedArray(lhs.rows, lhs.cols, [k \in 1..ALen(lhs) |-> cell(k).val]))

\* ndarray's `&lhs op &rhs`: rhs is broadcast to the shape of lhs (an axis
\* of length 1 is repeated), and the call panics when that is impossible.
ArrayOp(o, lhs, rhs, build) ==
    IF \/ (rhs.rows /= lhs.rows /\ rhs.rows /= 1)
       \/ (rhs.cols /= lhs.cols /\ rhs.cols /= 1)
    THEN Panic
    ELSE LET cell(k) ==
                 LET row == (k - 1) \div lhs.cols
                     col == (k - 1) % lhs.cols
                 IN  PixOp(o, lhs.data[ElemPos(lhs, row, col)],
                           rhs.data[ElemPos(rhs, IF rhs.rows = lhs.rows THEN row ELSE 0,
                                            IF rhs.cols = lhs.cols THEN col ELSE 0)],
                           build)
         IN  IF \E k \in 1..ALen(lhs) : cell(k).st = "panic" THEN Panic
             ELSE Ok(OwnedArray(lhs.rows, lhs.cols, [k \in 1..ALen(lhs) |-> cell(k).val]))

\* The dimension test comparing cell counts only.
DimensionsDifferByCount(lhs, rhs) == ALen(lhs) /= ALen(rhs)

\* The dimension test of the operator impls.
DimensionsDiffer(lhs, rhs) == Dimensions(lhs) /= Dimensions(rhs)

\* impl_image_op!: `&lhs op &rhs` for owned buffers and views.
ImageOp(o, lhs, rhs, build) ==
    IF DimensionsDiffer(lhs, rhs) THEN Err ELSE ArrayOp(o, lhs, rhs, build)

(* --------------------------- state machine ---------------------------- *)
(* img is the buffer the calls act on, src a second buffer (the source of  *)
(* a blit, the right operand of an operator), ctor the (width, height) img *)
(* was constructed with.  op, args, pre and res describe the last call:    *)
(* its name, its arguments, img before it, and what it returned.  it is    *)
(* the row, column, rows or cols iterator in use, if any, and calls the    *)
(* next and next_back calls made to it so far, each with what it returned. *)

NoCall == <<>>

Widths == 0..MaxW
Heights == 0..MaxH

\* Rect arguments: from empty to larger than the largest image.
Rects ==
    {Rect(l, t, w, h) : l \in 0..(MaxW - 1), t \in 0..(MaxH - 1), w \in Widths, h \in Heights}

NonEmptyRects ==
    {Rect(l, t, w, h) : l \in 0..(MaxW - 1), t \in 0..(MaxH - 1),
                        w \in 1..(MaxW + 1), h \in 1..(MaxH + 1)}

Offsets == (0 - MaxOff)..MaxOff

\* The coordinates (x, y) of a w by h image.
Coords(w, h) == (0..(w - 1)) \X (0..(h - 1))

\* The closures generating the image the calls start from (every cell
\* different), the second image (likewise), and a checkerboard.
ImgCell(w, h) == [c \in Coords(w, h) |-> 1 + c[2] * w + c[1]]
SrcCell == [c \in Coords(MaxW, MaxH) |-> 11 + c[2] * MaxW + c[1]]
Checker == [c \in Coords(MaxW, MaxH) |-> IF (c[1] + c[2]) % 2 = 0 THEN 77 ELSE 0]

\* A call is recorded in full (rec) when single calls are examined, and by
\* its status only when sequences of calls are explored.
Ready(rec) == rec => op = "init"

Record(rec, name, a, r) ==
    /\ op' = IF rec THEN name ELSE op
    /\ args' = IF rec THEN a ELSE NoCall
    /\ pre' = IF rec THEN img ELSE NoCall
    /\ res' = r
    /\ UNCHANGED <<it, calls>>

Mutate(rec, name, a, r) ==
    /\ Record(rec, name, a, [st |-> r.st])
    /\ img' = r.img
    /\ UNCHANGED <<src, ctor>>

Query(name, a, r) ==
    /\ Record(TRUE, name, a, r)
    /\ UNCHANGED <<img, src, ctor>>

DoFromVec ==
    /\ Ready(TRUE)
    /\ \E w \in Widths, h \in Heights, n \in 0..(MaxW * MaxH + 1) :
           Query("from_vec", [width |-> w, height |-> h, vec |-> Iota(n)], FromVec(w, h, Iota(n)))

DoFromRawVec ==
    /\ Ready(TRUE)
    /\ \E c \in 1..MaxChannels, w \in Widths, h \in Heights,
          n \in 0..(MaxW * MaxH * MaxChannels + 1) :
           Query("from_raw_vec", [channels |-> c, width |-> w, height |-> h, vec |-> Iota(n)],
                 FromRawVec(c, w, h, Iota(n)))

DoTranslateRect ==
    /\ Ready(TRUE)
    /\ \E rect \in NonEmptyRects, x \in Offsets, y \in Offsets :
           Query("translate_rect", [rect |-> rect, x |-> x, y |-> y],
                 TranslateRect(img, rect, x, y))

DoSubImage ==
    /\ Ready(TRUE)
    /\ \E rect \in Rects, env \in Envs :
           Query("sub_image", [rect |-> rect, env |-> env], SubImage(img, rect, env))

\* For a rect that is not empty every env gives the same view.
AnyEnv == [build |-> "release", edge |-> "wrap"]

\* An operand of an operator: the buffer itself or a view of a part of it.
Operands(im) ==
    {im} \cup {SubImage(im, r, AnyEnv).val :
                  r \in {q \in Rects : q.width > 0 /\ q.height > 0 /\ RectFitsImage(q, im)}}

\* The right operands: parts of the second buffer and of a checkerboard,
\* whose zero cells are divisors the pixel operator is not defined on.
RightOperands == Operands(src) \cup Operands(Generate(MaxW, MaxH, Checker))

DoImageOp ==
    /\ Ready(TRUE)
    /\ \E o \in Ops, lhs \in Operands(img), rhs \in RightOperands, build \in Builds :
           Query("image_op", [o |-> o, lhs |-> lhs, rhs |-> rhs, build |-> build],
                 ImageOp(o, lhs, rhs, build))

\* rect_iter(rect) called twice, each iterator collected.
DoRectIter ==
    /\ Ready(TRUE)
    /\ \E im \in Operands(img), rect \in Rects :
           Query("rect_iter", [im |-> im, rect |-> rect],
                 [st |-> RectIter(im, rect).st,
                  first |-> RectIter(im, rect), again |-> RectIter(im, rect)])

DoEnumeratePixels ==
    /\ Ready(TRUE)
    /\ \E im \in Operands(img) :
           Query("enumerate_pixels", [im |-> im], Ok(EnumeratePixels(im)))

DoGetPixel ==
    /\ Ready(TRUE)
    /\ \E im \in Operands(img), x \in Widths, y \in Heights :
           Query("get_pixel", [im |-> im, x |-> x, y |-> y], GetPixel(im, x, y))

\* generate(w, h, f): the buffer it returns and the calls it made to f.
DoGenerate ==
    /\ Ready(TRUE)
    /\ \E w \in Widths, h \in Heights :
       \E f \in {ImgCell(w, h), SrcCell, Checker} :
           Query("generate", [width |-> w, height |-> h, f |-> f],
                 Ok([img |-> Generate(w, h, f), calls |-> GenerateCalls(w, h)]))

\* as_slice on the buffer itself, and on sub_image(rect) of the buffer or
\* of a view of it.
DoAsSlice ==
    /\ Ready(TRUE)
    /\ \E nd \in NdarrayRules :
       \/ Query("as_slice", [im |-> img, parent |-> img, whole |-> TRUE,
                             rect |-> Rect(0, 0, Width(img), Height(img)),
                             nd |-> nd],
                AsSlice(img, nd))
       \/ \E parent \in Operands(img), rect \in Rects, env \in Envs :
             /\ RectFitsImage(rect, parent)
             /\ SubImage(parent, rect, env).st = "ok"
             /\ Query("as_slice", [im |-> SubImage(parent, rect, env).val,
                                   parent |-> parent, whole |-> FALSE, rect |-> rect,
                                   nd |-> nd],
                      AsSlice(SubImage(parent, rect, env).val, nd))

DoRows ==
    /\ Ready(TRUE)
    /\ \E im \in Operands(img) : Query("rows", [im |-> im], Ok(Rows(im)))

DoCols ==
    /\ Ready(TRUE)
    /\ \E im \in Operands(img) : Query("cols", [im |-> im], Ok(Cols(im)))

DoRow ==
    /\ Ready(TRUE)
    /\ \E im \in Operands(img), y \in Heights :
           Query("row", [im |-> im, y |-> y], Row(im, y))

DoCol ==
    /\ Ready(TRUE)
    /\ \E im \in Operands(img), x \in Widths :
           Query("col", [im |-> im, x |-> x], Col(im, x))

\* A buffer of float pixels, one of them NaN.
WithNaN == [c \in Coords(MaxW, MaxH) |-> IF c = <<0, 0>> THEN NaN ELSE 5]

\* Buffers and views compared for equality.
Comparands(im) ==
    Operands(im) \cup Operands(Generate(MaxW, MaxH, Checker))
                \cup Operands(Generate(MaxW, MaxH, WithNaN))

\* a == b, together with b == a and a == a.
DoEq ==
    /\ Ready(TRUE)
    /\ \E w \in Widths, h \in Heights :
       \E a \in Comparands(img), b \in Comparands(Generate(w, h, ImgCell(w, h))) :
           Query("eq", [a |-> a, b |-> b],
                 Ok([eq |-> ImageEq(a, b), rev |-> ImageEq(b, a), self |-> ImageEq(a, a)]))

DoPutPixel(rec) ==
    /\ Ready(rec)
    /\ \E x \in Widths, y \in Heights, p \in Pix :
           Mutate(rec, "put_pixel", [x |-> x, y |-> y, p |-> p], PutPixel(img, x, y, p))

DoFill(rec) ==
    /\ Ready(rec)
    /\ \E p \in Pix : Mutate(rec, "fill", [p |-> p], Fill(img, p))

DoFillRect(rec) ==
    /\ Ready(rec)
    /\ \E rect \in Rects, p \in Pix :
           Mutate(rec, "fill_rect", [rect |-> rect, p |-> p], FillRect(img, rect, p))

\* The destination rects tried with a source rect.  Calls whose two rects
\* differ in size all end alike, so where the arguments are not recorded
\* one destination of another size stands for all of them.
BlitTargets(rec, src_rect) ==
    IF rec THEN Rects
    ELSE {d \in Rects : RectSize(d) = RectSize(src_rect) \/ d = Rect(0, 0, 0, 0)}

DoBlitRect(rec) ==
    /\ Ready(rec)
    /\ \E src_rect \in Rects : \E dst_rect \in BlitTargets(rec, src_rect) :
           Mutate(rec, "blit_rect", [src_rect |-> src_rect, dst_rect |-> dst_rect],
                  BlitRect(img, src_rect, dst_rect, src))

DoRowMut(rec) ==
    /\ Ready(rec)
    /\ \E y \in Heights, n \in Widths, p \in Pix :
           Mutate(rec, "row_mut", [y |-> y, n |-> n, p |-> p], RowMutWrite(img, y, n, p))

DoColMut(rec) ==
    /\ Ready(rec)
    /\ \E x \in Widths, n \in Heights, p \in Pix :
           Mutate(rec, "col_mut", [x |-> x, n |-> n, p |-> p], ColMutWrite(img, x, n, p))

DoRowsMut(rec) ==
    /\ Ready(rec)
    /\ \E x \in Widths, y \in Heights, p \in Pix :
           Mutate(rec, "rows_mut", [x |-> x, y |-> y, p |-> p], RowsMutWrite(img, x, y, p))

DoColsMut(rec) ==
    /\ Ready(rec)
    /\ \E x \in Widths, y \in Heights, p \in Pix :
           Mutate(rec, "cols_mut", [x |-> x, y |-> y, p |-> p], ColsMutWrite(img, x, y, p))

DoIterMut(rec) ==
    /\ Ready(rec)
    /\ \E n \in 0..(MaxW * MaxH), p \in Pix :
           Mutate(rec, "iter_mut", [n |-> n, p |-> p], IterMutWrite(img, n, p))

DoEnumeratePixelsMut(rec) ==
    /\ Ready(rec)
    /\ \E n \in 0..(MaxW * MaxH), p \in Pix :
           Mutate(rec, "enumerate_pixels_mut", [n |-> n, p |-> p],
                  EnumeratePixelsMutWrite(img, n, p))

\* The envs tried with a rect.  They differ only for a rect with
\* left + width = 0 or top + height = 0, so where the arguments are not
\* recorded one env stands for all of them on every other rect.
SubImageEnvs(rec, rect) ==
    IF rec \/ rect.left + rect.width = 0 \/ rect.top + rect.height = 0
    THEN Envs ELSE {AnyEnv}

DoSubImageMut(rec) ==
    /\ Ready(rec)
    /\ \E rect \in Rects, lx \in Widths, ly \in Heights, p \in Pix :
       \E env \in SubImageEnvs(rec, rect) :
           Mutate(rec, "sub_image_mut",
                  [rect |-> rect, lx |-> lx, ly |-> ly, p |-> p, env |-> env],
                  SubImageMutWrite(img, rect, lx, ly, p, env))

IterKinds == {"row", "col", "rows", "cols"}

\* The items of the iterator im.row(n), im.col(n), im.rows() or im.cols().
IterItems(kind, im, n) ==
    CASE kind = "row" -> Row(im, n)
      [] kind = "col" -> Col(im, n)
      [] kind = "rows" -> Some(Rows(im))
      [] OTHER -> Some(Cols(im))

\* An iterator is taken from the buffer or from a view of it.
DoMakeIter ==
    /\ op = "init"
    /\ \E kind \in IterKinds, im \in Operands(img), n \in 0..Max(MaxW, MaxH) :
          /\ kind \in {"rows", "cols"} => n = 0
          /\ IterItems(kind, im, n).st = "some"
          /\ it' = Iterator(IterItems(kind, im, n).val)
          /\ op' = kind
          /\ args' = [im |-> im, n |-> n]
    /\ calls' = <<>>
    /\ UNCHANGED <<img, src, ctor, pre, res>>

\* The iterator may be called MaxExtra times after it has ended.
CanCall == op \in IterKinds /\ Len(calls) < Len(it.items) + MaxExtra

DoNext ==
    /\ CanCall
    /\ it' = IteratorNext(it).it
    /\ calls' = Append(calls, [fn |-> "next", ret |-> IteratorNext(it).ret])
    /\ UNCHANGED <<img, src, ctor, op, args, pre, res>>

DoNextBack ==
    /\ CanCall
    /\ it' = IteratorNextBack(it).it
    /\ calls' = Append(calls, [fn |-> "next_back", ret |-> IteratorNextBack(it).ret])
    /\ UNCHANGED <<img, src, ctor, op, args, pre, res>>

\* Sequences of mutating calls on a zeroed buffer.
Init ==
    /\ \E w \in Widths, h \in Heights : img = New(w, h) /\ ctor = <<w, h>>
    /\ src = Generate(MaxW, MaxH, Checker)
    /\ op = "init" /\ args = NoCall /\ pre = NoCall /\ res = [st |-> "ok"]
    /\ it = NoCall /\ calls = <<>>

Next ==
    \/ DoPutPixel(FALSE)
    \/ DoFill(FALSE)
    \/ DoFillRect(FALSE)
    \/ DoBlitRect(FALSE)
    \/ DoRowMut(FALSE)
    \/ DoColMut(FALSE)
    \/ DoIterMut(FALSE)
    \/ DoEnumeratePixelsMut(FALSE)
    \/ DoRowsMut(FALSE)
    \/ DoColsMut(FALSE)
    \/ DoSubImageMut(FALSE)

Spec == Init /\ [][Next]_vars

\* One call, with its arguments recorded, on buffers whose cells all differ.
InitCall ==
    /\ \E w \in Widths, h \in Heights :
          img = Generate(w, h, ImgCell(w, h)) /\ ctor = <<w, h>>
    /\ src = Generate(MaxW, MaxH, SrcCell)
    /\ op = "init" /\ args = NoCall /\ pre = NoCall /\ res = [st |-> "ok"]
    /\ it = NoCall /\ calls = <<>>

NextCall ==
    \/ DoFromVec
    \/ DoFromRawVec
    \/ DoTranslateRect
    \/ DoSubImage
    \/ DoImageOp
    \/ DoEq
    \/ DoRows
    \/ DoCols
    \/ DoAsSlice
    \/ DoGenerate
    \/ DoGetPixel
    \/ DoEnumeratePixels
    \/ DoRectIter
    \/ DoRow
    \/ DoCol
    \/ DoPutPixel(TRUE)
    \/ DoFill(TRUE)
    \/ DoFillRect(TRUE)
    \/ DoBlitRect(TRUE)
    \/ DoRowMut(TRUE)
    \/ DoColMut(TRUE)
    \/ DoIterMut(TRUE)
    \/ DoEnumeratePixelsMut(TRUE)
    \/ DoRowsMut(TRUE)
    \/ DoColsMut(TRUE)
    \/ DoSubImageMut(TRUE)

SpecCall == InitCall /\ [][NextCall]_vars

\* An iterator taken from a buffer whose cells all differ, then called at
\* either end in any order.
NextIter ==
    \/ DoMakeIter
    \/ DoNext
    \/ DoNextBack

SpecIter == InitCall /\ [][NextIter]_vars

(* ------------------------------ claims -------------------------------- *)

\* Cell (x, y) of an image, for coordinates inside it.
Cell(im, x, y) == GetPixel(im, x, y).val

Xs(im) == 0..(Width(im) - 1)
Ys(im) == 0..(Height(im) - 1)

\* C1: from_vec(w, h, v) succeeds exactly when Len(v) = w * h; the buffer
\* it returns has dimensions (w, h), holds v[y * w + x] at (x, y) and
\* iterates as v; any other length is an error, not a panic.
C1_FromVecRoundTrip ==
    op = "from_vec" =>
        LET w == args.width
            h == args.height
            v == args.vec
        IN  /\ (res.st = "ok") <=> (Len(v) = w * h)
            /\ res.st /= "ok" => res.st = "err"
            /\ res.st = "ok" =>
                  /\ Dimensions(res.val) = <<w, h>>
                  /\ \A x \in 0..(w - 1), y \in 0..(h - 1) :
                        GetPixel(res.val, x, y) = Ok(v[y * w + x + 1])
                  /\ Iter(res.val) = v

C1_Witness ==
    /\ op = "from_vec" /\ res.st = "ok"
    /\ args.width >= 2 /\ args.height >= 2 /\ Len(args.vec) = args.width * args.height

\* C2: from_raw_vec(w, h, v) for a pixel of n channels returns an error
\* whenever Len(v) is no multiple of n or Len(v) / n differs from w * h.
C2_FromRawVecRejects ==
    op = "from_raw_vec" =>
        LET n == args.channels
            len == Len(args.vec)
        IN  (len % n /= 0 \/ len \div n /= args.width * args.height) => res.st = "err"

\* C3: whatever mutating calls have run, the buffer has the dimensions it
\* was constructed with and its storage holds width * height cells.
C3_DimensionInvariant ==
    /\ Dimensions(img) = ctor
    /\ Len(img.data) = Width(img) * Height(img)

C3_Witness ==
    /\ res.st = "err"
    /\ Width(img) >= 2 /\ Height(img) >= 1 /\ Width(img) /= Height(img)
    /\ \E k \in 1..Len(img.data) : img.data[k] /= 0
    /\ \E k \in 1..Len(img.data) : img.data[k] = 0

\* C4: blit_rect returns an error and leaves every destination cell as it
\* was when the rect sizes differ, src_rect does not fit the source, or
\* dst_rect does not fit the destination.
C4_BlitAllOrNothing ==
    op = "blit_rect" =>
        LET s == args.src_rect
            d == args.dst_rect
        IN  (\/ RectSize(s) /= RectSize(d)
             \/ ~RectFitsImage(s, src)
             \/ ~RectFitsImage(d, pre))
            => res.st = "err" /\ img = pre

C4_Witness ==
    /\ op = "blit_rect" /\ res.st = "err"
    /\ RectSize(args.src_rect) = RectSize(args.dst_rect)
    /\ args.src_rect.width >= 1 /\ args.src_rect.height >= 1
    /\ RectFitsImage(args.src_rect, src)
    /\ ~RectFitsImage(args.dst_rect, pre)
    /\ Width(pre) >= 1 /\ Height(pre) >= 1

\* C5: a blit_rect that succeeds copies source cell (src.left + i,
\* src.top + j) to destination cell (dst.left + i, dst.top + j), in
\* scanline order, leaves the destination outside dst_rect and the source
\* as they were; blitting r onto r between two same-sized buffers that
\* agree outside r makes them equal.
C5_BlitCopies ==
    (op = "blit_rect" /\ res.st = "ok") =>
        LET s == args.src_rect
            d == args.dst_rect
        IN  /\ Dimensions(img) = Dimensions(pre)
            /\ \A i \in 0..(s.width - 1), j \in 0..(s.height - 1) :
                  Cell(img, d.left + i, d.top + j) = Cell(src, s.left + i, s.top + j)
            /\ RectIter(img, d) = RectIter(src, s)
            /\ \A x \in Xs(pre), y \in Ys(pre) :
                  ~RectContains(d, x, y) => Cell(img, x, y) = Cell(pre, x, y)
            /\ src = Generate(MaxW, MaxH, SrcCell)
            /\ (/\ s = d
                /\ Dimensions(pre) = Dimensions(src)
                /\ \A x \in Xs(pre), y \in Ys(pre) :
                      ~RectContains(d, x, y) => Cell(pre, x, y) = Cell(src, x, y))
               => ImageEq(img, src)

C5_Witness ==
    /\ op = "blit_rect" /\ res.st = "ok"
    /\ args.src_rect.width >= 1 /\ args.src_rect.height >= 2
    /\ args.src_rect.left /= args.dst_rect.left
    /\ \E x \in Xs(pre), y \in Ys(pre) : ~RectContains(args.dst_rect, x, y)

\* The cells of a rect moved by (x, y) that lie inside the image.
MovedCells(im, rect, x, y) ==
    {c \in Xs(im) \X Ys(im) : RectContains(rect, c[1] - x, c[2] - y)}

\* C6: translate_rect returns None exactly when the moved rect shares no
\* cell with the image, and otherwise the intersection of the moved rect
\* with the image: never empty, inside the image, no larger than rect.
C6_TranslateRectClips ==
    op = "translate_rect" =>
        LET moved == MovedCells(img, args.rect, args.x, args.y)
        IN  /\ (res.st = "none") <=> (moved = {})
            /\ res.st = "some" =>
                  /\ res.val.width >= 1 /\ res.val.height >= 1
                  /\ RectFitsImage(res.val, img)
                  /\ res.val.width <= args.rect.width
                  /\ res.val.height <= args.rect.height
                  /\ {c \in Xs(img) \X Ys(img) : RectContains(res.val, c[1], c[2])} = moved

\* What C7 says of a sub_image call.
SubImageIsWindow ==
    LET r == args.rect
    IN  /\ res.st = "ok"
        /\ Dimensions(res.val) = <<r.width, r.height>>
        /\ \A lx \in 0..(r.width - 1), ly \in 0..(r.height - 1) :
              GetPixel(res.val, lx, ly) = GetPixel(img, r.left + lx, r.top + ly)
        /\ Len(EnumeratePixels(res.val)) = r.width * r.height
        /\ \A lx \in 0..(r.width - 1), ly \in 0..(r.height - 1) :
              EnumeratePixels(res.val)[ly * r.width + lx + 1]
                  = <<<<ly, lx>>, Cell(img, r.left + lx, r.top + ly)>>

\* C7: sub_image(rect) of any rect that fits the buffer is a view of
\* dimensions (w, h) whose cell (lx, ly) is the parent's cell
\* (ox + lx, oy + ly), and enumerate_pixels on it gives w * h entries, each
\* under its local index.
C7_SubImageAnyRect ==
    (op = "sub_image" /\ RectFitsImage(args.rect, img)) => SubImageIsWindow

\* C8: a write at (lx, ly) through sub_image_mut(rect), for a rect that
\* fits, shows in the parent at (ox + lx, oy + ly), and every parent cell
\* outside rect keeps its value.
C8_SubImageMutIsolation ==
    (op = "sub_image_mut" /\ RectFitsImage(args.rect, pre)) =>
        LET r == args.rect
        IN  /\ Dimensions(img) = Dimensions(pre)
            /\ (args.lx < r.width /\ args.ly < r.height) =>
                  /\ res.st = "ok"
                  /\ GetPixel(img, r.left + args.lx, r.top + args.ly) = Ok(args.p)
            /\ \A x \in Xs(pre), y \in Ys(pre) :
                  (~RectContains(r, x, y) \/ res.st /= "ok"
                     \/ <<x, y>> /= <<r.left + args.lx, r.top + args.ly>>)
                  => Cell(img, x, y) = Cell(pre, x, y)

C8_Witness ==
    /\ op = "sub_image_mut" /\ res.st = "ok"
    /\ args.rect.left >= 1 /\ args.rect.height >= 2
    /\ args.lx = 0 /\ args.ly >= 1
    /\ Cell(img, args.rect.left, args.rect.top + args.ly) = args.p
    /\ Cell(pre, args.rect.left, args.rect.top + args.ly) /= args.p

\* C9: fill_rect of a rect that fits sets exactly the cells the rect
\* contains; a rect that does not fit makes it panic with nothing written.
C9_FillRectFrame ==
    op = "fill_rect" =>
        IF RectFitsImage(args.rect, pre)
        THEN /\ res.st = "ok"
             /\ Dimensions(img) = Dimensions(pre)
             /\ \A x \in Xs(pre), y \in Ys(pre) :
                   Cell(img, x, y) = IF RectContains(args.rect, x, y)
                                     THEN args.p ELSE Cell(pre, x, y)
        ELSE res.st = "panic" /\ img = pre

C9_Witness ==
    /\ op = "fill_rect" /\ res.st = "ok"
    /\ args.rect.left >= 1 /\ args.rect.width >= 1 /\ args.rect.height >= 2
    /\ \E x \in Xs(pre), y \in Ys(pre) : ~RectContains(args.rect, x, y)

\* C10: an operator applied to operands of different dimensions returns
\* the dimension-mismatch error, whatever the operator and whether the
\* operands are buffers or views, and leaves both operands as they were.
C10_OpDimensionMismatch ==
    (op = "image_op" /\ Dimensions(args.lhs) /= Dimensions(args.rhs)) =>
        /\ res.st = "err"
        /\ img = pre
        /\ src = Generate(MaxW, MaxH, SrcCell)

C10_Witness ==
    /\ op = "image_op" /\ res.st = "err"
    /\ Width(args.lhs) = Height(args.rhs) /\ Height(args.lhs) = Width(args.rhs)
    /\ Width(args.lhs) /= Height(args.lhs)
    /\ args.lhs.off > 0

\* The cells of two operands of one size pair up under the pixel operator.
PixelOpDefined(o, lhs, rhs, build) ==
    \A x \in Xs(lhs), y \in Ys(lhs) :
        PixOp(o, Cell(lhs, x, y), Cell(rhs, x, y), build).st = "ok"

\* The result r of an operator is a fresh owned buffer of the size of lhs
\* whose cell (x, y) is lhs(x, y) o rhs(x, y), and no operand has changed.
OpResultIsPairwise(o, lhs, rhs, build, r) ==
    /\ r.st = "ok"
    /\ Dimensions(r.val) = Dimensions(lhs)
    /\ r.val = OwnedArray(Height(lhs), Width(lhs), r.val.data)
    /\ Len(r.val.data) = Width(lhs) * Height(lhs)
    /\ \A x \in Xs(lhs), y \in Ys(lhs) :
           Cell(r.val, x, y) = PixOp(o, Cell(lhs, x, y), Cell(rhs, x, y), build).val
    /\ img = pre
    /\ src = Generate(MaxW, MaxH, SrcCell)

\* C11 as stated: an operator applied to operands of identical dimensions
\* always succeeds with the buffer of pairwise results.
C11_OpAlwaysSucceeds ==
    (op = "image_op" /\ Dimensions(args.lhs) = Dimensions(args.rhs)) =>
        OpResultIsPairwise(args.o, args.lhs, args.rhs, args.build, res)

\* C11: an operator applied to operands of identical dimensions never
\* returns an error; it succeeds exactly when the pixel operator is defined
\* on every pair of corresponding cells, and then returns a fresh owned
\* buffer of pairwise results, leaving both operands unchanged; otherwise
\* it panics.
C11_OpPairwise ==
    (op = "image_op" /\ Dimensions(args.lhs) = Dimensions(args.rhs)) =>
        IF PixelOpDefined(args.o, args.lhs, args.rhs, args.build)
        THEN OpResultIsPairwise(args.o, args.lhs, args.rhs, args.build, res)
        ELSE res.st = "panic" /\ img = pre

C11_Witness ==
    /\ op = "image_op" /\ res.st = "ok" /\ args.o = "rem"
    /\ args.lhs.off > 0 /\ args.rhs.off > 0
    /\ Height(args.lhs) >= 2 /\ args.lhs.rs > Width(args.lhs)
    /\ Cell(res.val, 0, 1) /= Cell(res.val, 0, 0)

\* Two images have the same size and equal cells at every coordinate.
SameCells(a, b) ==
    /\ Dimensions(a) = Dimensions(b)
    /\ \A x \in Xs(a), y \in Ys(a) : PixEq(Cell(a, x, y), Cell(b, x, y))

\* C12 as stated: two buffers are equal iff their dimensions are identical
\* and corresponding cells are equal, and equality is symmetric and
\* reflexive.
C12_EqualityReflexive ==
    op = "eq" =>
        /\ res.val.eq <=> SameCells(args.a, args.b)
        /\ res.val.rev = res.val.eq
        /\ res.val.self

\* C12: two buffers are equal iff their dimensions are identical and
\* corresponding cells are equal, so the same scanline sequence under
\* different dimensions is not equal; equality is symmetric, and a buffer
\* equals itself when each of its cells equals itself.
C12_Equality ==
    op = "eq" =>
        /\ res.val.eq <=> SameCells(args.a, args.b)
        /\ Dimensions(args.a) /= Dimensions(args.b) => ~res.val.eq
        /\ res.val.rev = res.val.eq
        /\ res.val.self <=> \A x \in Xs(args.a), y \in Ys(args.a) :
                                PixEq(Cell(args.a, x, y), Cell(args.a, x, y))

C12_Witness ==
    /\ op = "eq" /\ ~res.val.eq /\ res.val.self
    /\ Iter(args.a) = Iter(args.b)
    /\ Width(args.a) >= 2
    /\ Dimensions(args.a) /= Dimensions(args.b)

\* The cells of row y from left to right, and of column x from the top.
RowCells(im, y) == [k \in 1..Width(im) |-> Cell(im, k - 1, y)]
ColCells(im, x) == [k \in 1..Height(im) |-> Cell(im, x, k - 1)]

\* After a call on pre that wrote p to the cells in written, img holds p
\* there and is as pre everywhere else.
OnlyWritten(written, p) ==
    /\ Dimensions(img) = Dimensions(pre)
    /\ \A x \in Xs(pre), y \in Ys(pre) :
           Cell(img, x, y) = IF <<x, y>> \in written THEN p ELSE Cell(pre, x, y)

\* C13: row(y) and row_mut(y) are None iff y >= height(), and otherwise
\* yield exactly the width() pixels of row y from left to right; col(x)
\* and col_mut(x) are None iff x >= width(), and otherwise yield exactly
\* the height() pixels of column x from top to bottom.
C13_RowColIterators ==
    /\ op = "row" =>
          /\ res.st = "none" <=> args.y >= Height(args.im)
          /\ res.st /= "none" => res = Some(RowCells(args.im, args.y))
    /\ op = "col" =>
          /\ res.st = "none" <=> args.x >= Width(args.im)
          /\ res.st /= "none" => res = Some(ColCells(args.im, args.x))
    /\ op = "row_mut" =>
          /\ res.st = "none" <=> args.y >= Height(pre)
          /\ res.st /= "none" => res.st = "ok"
          /\ OnlyWritten(IF res.st = "none" THEN {}
                         ELSE {<<x, args.y>> : x \in 0..(Min(args.n, Width(pre)) - 1)},
                         args.p)
    /\ op = "col_mut" =>
          /\ res.st = "none" <=> args.x >= Width(pre)
          /\ res.st /= "none" => res.st = "ok"
          /\ OnlyWritten(IF res.st = "none" THEN {}
                         ELSE {<<args.x, y>> : y \in 0..(Min(args.n, Height(pre)) - 1)},
                         args.p)

C13_Witness ==
    /\ op = "row" /\ res.st = "some"
    /\ args.y >= 1 /\ Len(res.val) >= 2
    /\ res.val[1] = Cell(args.im, 0, args.y) /\ res.val[2] /= res.val[1]

\* C14: rect_iter(rect) on an image the rect fits yields exactly
\* width * height pixels, the k-th (from 0) being the cell at
\* (left + k mod width, top + k div width), so none for a rect of zero
\* width or height; a second call yields the same sequence; a rect that
\* does not fit makes the call panic.
C14_RectIter ==
    op = "rect_iter" =>
        LET r == args.rect
        IN  /\ res.again = res.first
            /\ res.st = "panic" <=> ~RectFitsImage(r, args.im)
            /\ res.st /= "panic" =>
                  /\ res.st = "ok"
                  /\ Len(res.first.val) = r.width * r.height
                  /\ \A k \in 0..(r.width * r.height - 1) :
                         res.first.val[k + 1] =
                             Cell(args.im, r.left + (k % r.width), r.top + (k \div r.width))
                  /\ (r.width = 0 \/ r.height = 0) => res.first.val = <<>>

C14_Witness ==
    /\ op = "rect_iter" /\ res.st = "ok"
    /\ args.rect.left >= 1 /\ args.rect.height >= 2
    /\ Width(args.im) > args.rect.width
    /\ Len(res.first.val) >= 2
    /\ res.first.val[2] = Cell(args.im, args.rect.left, args.rect.top + 1)

\* C15: enumerate_pixels yields width * height entries in row-major
\* order, the k-th (from 0) being ((y, x), get_pixel(x, y)) for row
\* y = k div width and column x = k mod width.
C15_EnumeratePixels ==
    op = "enumerate_pixels" =>
        LET w == Width(args.im)
            h == Height(args.im)
        IN  /\ res.st = "ok"
            /\ Len(res.val) = w * h
            /\ \A k \in 0..(w * h - 1) :
                   LET y == k \div w
                       x == k % w
                   IN  /\ y \in Ys(args.im) /\ x \in Xs(args.im)
                       /\ res.val[k + 1] = <<<<y, x>>, Cell(args.im, x, y)>>

C15_Witness ==
    /\ op = "enumerate_pixels"
    /\ Width(args.im) >= 2 /\ Height(args.im) >= 2 /\ args.im = pre
    /\ res.val[2] = <<<<0, 1>>, Cell(args.im, 1, 0)>>
    /\ Cell(args.im, 1, 0) /= Cell(args.im, 0, 1)

\* C16: put_pixel(x, y, v) with x < width() and y < height() succeeds,
\* after it the cell at column x of row y reads v, and every other cell
\* is as before.
C16_PutPixelFrame ==
    (op = "put_pixel" /\ args.x < Width(pre) /\ args.y < Height(pre)) =>
        /\ res.st = "ok"
        /\ GetPixel(img, args.x, args.y) = Ok(args.p)
        /\ img.data[args.y * Width(img) + args.x + 1] = args.p
        /\ OnlyWritten({<<args.x, args.y>>}, args.p)

C16_Witness ==
    /\ op = "put_pixel" /\ res.st = "ok"
    /\ args.x >= 1 /\ args.y = 0 /\ Height(pre) <= args.x
    /\ Cell(img, args.x, args.y) = args.p /\ Cell(pre, args.x, args.y) /= args.p

\* C17: get_pixel and put_pixel panic exactly when x >= width() or
\* y >= height(), also where y * width() + x lies inside the storage and,
\* on a sub-image view, where the parent has the coordinate; a put_pixel
\* that panics leaves every cell as it was.
C17_PointAccessBounds ==
    /\ op = "get_pixel" =>
          (res.st = "panic" <=> (args.x >= Width(args.im) \/ args.y >= Height(args.im)))
    /\ op = "put_pixel" =>
          /\ res.st = "panic" <=> (args.x >= Width(pre) \/ args.y >= Height(pre))
          /\ res.st = "panic" => img = pre
    /\ (/\ op = "sub_image_mut"
        /\ RectFitsImage(args.rect, pre)
        /\ args.rect.width >= 1 /\ args.rect.height >= 1
        /\ (args.lx >= args.rect.width \/ args.ly >= args.rect.height)) =>
          res.st = "panic" /\ img = pre

C17_Witness ==
    /\ op = "get_pixel" /\ res.st = "panic"
    /\ Height(args.im) >= 2 /\ args.y = 0
    /\ args.x >= Width(args.im) /\ args.x < Width(pre)
    /\ ElemPos(args.im, args.y, args.x) <= Len(args.im.data)

\* C18: generate(w, h, f) calls f once for each (x, y) with x < w and
\* y < h and with nothing else, and returns a buffer of dimensions (w, h)
\* whose cell at column x of row y is f(x, y).
C18_Generate ==
    op = "generate" =>
        LET w == args.width
            h == args.height
            made == res.val.calls
        IN  /\ Len(made) = w * h
            /\ \A k \in 1..Len(made) : made[k] \in Coords(w, h)
            /\ \A c \in Coords(w, h) :
                   Cardinality({k \in 1..Len(made) : made[k] = c}) = 1
            /\ Dimensions(res.val.img) = <<w, h>>
            /\ \A c \in Coords(w, h) : GetPixel(res.val.img, c[1], c[2]) = Ok(args.f[c])

C18_Witness ==
    /\ op = "generate"
    /\ args.width > args.height /\ args.height >= 1
    /\ <<1, 0>> \in {res.val.calls[k] : k \in 1..Len(res.val.calls)}
    /\ Cell(res.val.img, 1, 0) = args.f[<<1, 0>>]
    /\ args.f[<<1, 0>>] /= args.f[<<0, 0>>]

\* What C19 says of every as_slice call: Some only for an image whose cells
\* lie one after the other in the storage in scanline order, the slice
\* listing them in that order; Some for every owned buffer and every view
\* of a whole owned buffer.
AsSliceIsScanline ==
    /\ res.st \in {"some", "none"}
    /\ res.st = "some" =>
          /\ res.val = Iter(args.im)
          /\ \A k \in 1..ALen(args.im) : IterPos(args.im, k) = args.im.off + k
    /\ args.whole => res.st = "some"
    /\ (/\ ~args.whole /\ args.parent = pre
        /\ args.rect = Rect(0, 0, Width(pre), Height(pre))) => res.st = "some"

\* A sub_image view over a rect narrower than its parent and at least two
\* rows high.
NarrowView ==
    ~args.whole /\ args.rect.width < Width(args.parent) /\ args.rect.height >= 2

\* C19 (as stated): as_slice is Some only for scanline-contiguous cells,
\* Some for owned buffers and whole-buffer views, and None for every
\* sub_image view over a rect narrower than its parent and at least two
\* rows high.
C19_AsSliceAnyNarrow ==
    op = "as_slice" =>
        /\ AsSliceIsScanline
        /\ NarrowView => res.st = "none"

\* C19 (amended): as_slice is Some only for scanline-contiguous cells, Some
\* for owned buffers and whole-buffer views, and None for every sub_image
\* view over a rect of width >= 1 narrower than its parent and at least two
\* rows high; over such a rect of width 0 it is None where ndarray compares
\* the strides of an empty array and Some of the empty slice where ndarray
\* calls every empty array standard.
C19_AsSlice ==
    op = "as_slice" =>
        /\ AsSliceIsScanline
        /\ (NarrowView /\ args.rect.width >= 1) => res.st = "none"
        /\ (NarrowView /\ args.rect.width = 0) =>
              res = IF args.nd = "by_strides" THEN None ELSE Some(<<>>)

C19_Witness ==
    /\ op = "as_slice" /\ res.st = "none" /\ ~args.whole
    /\ args.rect.width >= 1 /\ args.rect.width < Width(args.parent)
    /\ args.rect.height >= 2
    /\ Iter(args.im) /= [k \in 1..ALen(args.im) |-> args.im.data[args.im.off + k]]

\* After a write of p at (x, y), rows(), cols() and get_pixel read p there.
ReadBack(x, y, p) ==
    /\ res.st = "ok"
    /\ Rows(img)[y + 1][x + 1] = p
    /\ Cols(img)[x + 1][y + 1] = p
    /\ GetPixel(img, x, y) = Ok(p)
    /\ OnlyWritten({<<x, y>>}, p)

\* C20: rows() yields the height() rows from top to bottom, row y holding
\* the cells (0, y) .. (width() - 1, y); cols() yields the width() columns
\* from left to right, column x holding the cells (x, 0) ..
\* (x, height() - 1); a write through rows_mut() or cols_mut() at (x, y) is
\* read back at (x, y) by rows(), cols() and get_pixel.
C20_RowsCols ==
    /\ op = "rows" =>
          /\ Len(res.val) = Height(args.im)
          /\ \A y \in Ys(args.im) : res.val[y + 1] = RowCells(args.im, y)
    /\ op = "cols" =>
          /\ Len(res.val) = Width(args.im)
          /\ \A x \in Xs(args.im) : res.val[x + 1] = ColCells(args.im, x)
    /\ (op \in {"rows_mut", "cols_mut"} /\ args.x < Width(pre) /\ args.y < Height(pre)) =>
          ReadBack(args.x, args.y, args.p)

C20_Witness ==
    /\ op = "rows_mut" /\ res.st = "ok"
    /\ args.x >= 1 /\ args.y < args.x /\ Height(pre) <= args.x
    /\ Cols(img)[args.x + 1][args.y + 1] = args.p
    /\ Cell(pre, args.x, args.y) /= args.p

\* The number of calls to fn among the first k calls.
CallsTo(fn, k) == Cardinality({m \in 1..k : calls[m].fn = fn})

\* The elements the iterator in use runs over: the pixels of the row or
\* column, or the rows or columns themselves.
Elements ==
    CASE op = "row" -> RowCells(args.im, args.n)
      [] op = "col" -> ColCells(args.im, args.n)
      [] op = "rows" -> [k \in 1..Height(args.im) |-> RowCells(args.im, k - 1)]
      [] OTHER -> [k \in 1..Width(args.im) |-> ColCells(args.im, k - 1)]

\* C21: for a row, column, rows or cols iterator over n elements, after i
\* calls of next and j calls of next_back in any order, len() is
\* max(n - i - j, 0); each of the first n calls returned an element, the
\* calls of next returning elements 0, 1, ... and the calls of next_back
\* elements n - 1, n - 2, ... in order; no element was returned twice; and
\* every call after the n-th returned None.
C21_DoubleEnded ==
    op \in IterKinds =>
        LET n == Len(Elements)
            returned == {m \in 1..Len(calls) : calls[m].ret.st = "some"}
        IN  /\ IteratorLen(it) = Max(n - Len(calls), 0)
            /\ \A m \in 1..Len(calls) :
                   IF m > n THEN calls[m].ret = None
                   ELSE LET at == IF calls[m].fn = "next"
                                   THEN CallsTo("next", m - 1)
                                   ELSE n - 1 - CallsTo("next_back", m - 1)
                        IN  calls[m].ret = Some([at |-> at, val |-> Elements[at + 1]])
            /\ \A m1, m2 \in returned : m1 /= m2 => calls[m1].ret.val.at /= calls[m2].ret.val.at
            /\ Cardinality(returned) = Min(n, Len(calls))

C21_Witness ==
    /\ op = "col" /\ Len(Elements) >= 2
    /\ Len(calls) = Len(Elements) + MaxExtra
    /\ calls[1].fn = "next_back" /\ calls[2].fn = "next" /\ calls[Len(calls)].fn = "next_back"
    /\ calls[1].ret.val.val /= calls[2].ret.val.val
    /\ calls[Len(calls)].ret = None
    /\ IteratorLen(it) = 0

====
